---- MODULE Spec2Model ----
(***************************************************************************)
(* A model of the grocery store simulation: the stable priority queue of   *)
(* container.py, the checkout lines and the store of store.py, and the     *)
(* event loop that drives them.                                            *)
(***************************************************************************)
EXTENDS Integers, Sequences, FiniteSets, TLC

VARIABLES
    items,          \* PriorityQueue._items, index 1 is the front
    seq,            \* number of add calls so far (stamps each added item)
    store,          \* the GroceryStore: num_lines, line_capacity, checkout_lines
    stats,          \* the simulation's num_customers, total_time, max_wait
    clock,          \* the timestamp of the event applied last
    pc,             \* where run is: "seed" or "load", then "drain", "done"
    log,            \* the Arrive commands of the event list given to run
    served,         \* the customers checked out so far, in order
    last            \* the last operation performed and what it returned

vars == <<items, seq, store, stats, clock, pc, log, served, last>>

(***************************************************************************)
(* Bounds                                                                  *)
(***************************************************************************)
MaxKey == 2         \* priorities of queued items are 0..MaxKey
MaxAdds == 4        \* add is called at most MaxAdds times in one behaviour

MaxCapacity == 3    \* line_capacity is 1..MaxCapacity
NumCustomers == 3   \* customers are named 1..NumCustomers
MaxArrivals == 2    \* the event list has at most MaxArrivals Arrive commands
MaxCloses == 1      \* the event list has at most MaxCloses Close commands
MaxStart == 1       \* the commands of the event list are timed 0..MaxStart

(***************************************************************************)
(* container.py : PriorityQueue                                            *)
(***************************************************************************)

\* The ordering key of a queued item.
Key(item) == item.timestamp

\* a wrong comparison: "not greater" instead of "less"
LessOrEqual(a, b) == Key(a) <= Key(b)

\* item < self._items[i]
Less(a, b) == Key(a) < Key(b)

is_empty(s) == Len(s) = 0

\* s with item inserted in front of index i
InsertAt(s, i, item) == SubSeq(s, 1, i - 1) \o <<item>> \o SubSeq(s, i, Len(s))

\* a scan that stops at the first held item that is not less than item
RECURSIVE AddScanBeforeEqual(_, _, _)
AddScanBeforeEqual(s, item, i) ==
    IF i > Len(s) THEN Append(s, item)
    ELSE IF ~Less(s[i], item) THEN InsertAt(s, i, item)
    ELSE AddScanBeforeEqual(s, item, i + 1)

\* The while loop of add, from index i on: insert in front of the first held
\* item that item is less than, append when there is none.
RECURSIVE AddScan(_, _, _)
AddScan(s, item, i) ==
    IF i > Len(s) THEN Append(s, item)
    ELSE IF Less(item, s[i]) THEN InsertAt(s, i, item)
    ELSE AddScan(s, item, i + 1)

\* an add that forgets the order and always appends
addAtBack(s, item) == Append(s, item)

\* an add that puts the item in front of every held item
addAtFront(s, item) == <<item>> \o s

add(s, item) == IF is_empty(s) THEN Append(s, item) ELSE AddScan(s, item, 1)

\* a remove that pops the item at the back: self._items.pop()
remove_last(s) == [ret |-> s[Len(s)], rest |-> SubSeq(s, 1, Len(s) - 1)]

\* remove: self._items.pop(0), the item returned and the list left
remove(s) == [ret |-> s[1], rest |-> SubSeq(s, 2, Len(s))]

(***************************************************************************)
(* store.py : Customer, Item                                               *)
(***************************************************************************)

\* The maximum number of items a customer can have if they use an express line.
EXPRESS_LIMIT == 7

\* Customer.arrival_time is None
NoTime == -1

\* The item lists of the customers, each item given by its checkout time.
ItemLists == << <<3, 3>>, <<7>>, <<1, 1, 1, 1, 1, 1, 1, 1>>, <<1, 1, 1, 1, 1, 1, 1>> >>

\* Customer(name, items): customer n of the population, not yet arrived.
Customer(n) ==
    [name |-> n,
     items |-> ItemLists[((n - 1) % Len(ItemLists)) + 1],
     arrival_time |-> NoTime]

\* Stands for "no customer" (Python's None) where a customer is expected.
NoCustomer == [name |-> 0, items |-> <<>>, arrival_time |-> NoTime]

num_items(customer) == Len(customer.items)

RECURSIVE SumTimes(_, _)
SumTimes(its, i) == IF i > Len(its) THEN 0 ELSE its[i] + SumTimes(its, i + 1)

item_time(customer) == SumTimes(customer.items, 1)

(***************************************************************************)
(* store.py : CheckoutLine and its three variants                          *)
(***************************************************************************)

\* CheckoutLine.__init__ for a line of the given variant
NewLine(kind, capacity) ==
    [kind |-> kind, capacity |-> capacity, is_open |-> TRUE, queue |-> <<>>]

len(line) == Len(line.queue)

\* a can_accept that forgets the capacity
can_accept_if_open(line, customer) == line.is_open

\* a can_accept that forgets that the line may be closed
can_accept_if_room(line, customer) == len(line) < line.capacity

can_accept(line, customer) == len(line) < line.capacity /\ line.is_open

\* an accept that does not ask can_accept
accept_unasked(line, customer) ==
    [line |-> [line EXCEPT !.queue = Append(@, customer)], ret |-> TRUE]

accept(line, customer) ==
    IF can_accept(line, customer)
    THEN [line |-> [line EXCEPT !.queue = Append(@, customer)], ret |-> TRUE]
    ELSE [line |-> line, ret |-> FALSE]

\* a first_in_line that returns the customer at the back of the line
last_in_line(line) == IF len(line) = 0 THEN NoCustomer ELSE line.queue[len(line)]

first_in_line(line) == IF len(line) = 0 THEN NoCustomer ELSE line.queue[1]

regular_next_checkout_time(line) ==
    IF len(line) = 0 THEN 0 ELSE item_time(first_in_line(line))

express_next_checkout_time(line) ==
    IF len(line) = 0 THEN 0 ELSE item_time(first_in_line(line))

\* a self-serve line timed like a regular one
single_next_checkout_time(line) ==
    IF len(line) = 0 THEN 0 ELSE item_time(first_in_line(line))

self_serve_next_checkout_time(line) ==
    IF len(line) = 0 THEN 0 ELSE 2 * item_time(first_in_line(line))

\* next_checkout_time, dispatched on the variant of the line
next_checkout_time(line) ==
    CASE line.kind = "Regular" -> regular_next_checkout_time(line)
      [] line.kind = "Express" -> express_next_checkout_time(line)
      [] line.kind = "SelfServe" -> self_serve_next_checkout_time(line)

\* a removal that returns the length the line had before
remove_front_old_length(line) ==
    IF len(line) = 0
    THEN [line |-> line, ret |-> 0]
    ELSE [line |-> [line EXCEPT !.queue = SubSeq(@, 2, Len(@))],
          ret |-> len(line)]

\* a remove_front_customer that always reports an empty line
remove_front_report_empty(line) ==
    [line |-> [line EXCEPT !.queue = IF len(line) = 0 THEN <<>> ELSE Tail(@)],
     ret |-> 0]

remove_front_customer(line) ==
    IF len(line) = 0
    THEN [line |-> line, ret |-> 0]
    ELSE [line |-> [line EXCEPT !.queue = SubSeq(@, 2, Len(@))],
          ret |-> len(line) - 1]

\* a close that evicts the front customer too
close_evict_all(line) ==
    [line |-> [line EXCEPT !.is_open = FALSE, !.queue = <<>>],
     ret |-> line.queue]

\* a close that keeps the front customer and loses the customers behind
close_lose_evicted(line) ==
    [line |-> [line EXCEPT !.is_open = FALSE,
                           !.queue = IF len(line) = 0 THEN <<>> ELSE <<line.queue[1]>>],
     ret |-> <<>>]

\* a sequence back to front
RECURSIVE Reversed(_)
Reversed(s) == IF s = <<>> THEN <<>> ELSE Append(Reversed(Tail(s)), Head(s))

\* a close that collects the customers behind the front from the back
close_back_to_front(line) ==
    [line |-> [line EXCEPT !.is_open = FALSE,
                           !.queue = IF len(line) = 0 THEN <<>> ELSE <<@[1]>>],
     ret |-> Reversed(SubSeq(line.queue, 2, len(line)))]

\* the customers of a list as they were before they ever arrived
Unarrived(customers) ==
    [i \in 1..Len(customers) |-> [customers[i] EXCEPT !.arrival_time = NoTime]]

\* a close that resets the arrival_time of the customers it evicts
close_reset_arrival(line) ==
    [line |-> [line EXCEPT !.is_open = FALSE,
                           !.queue = IF len(line) = 0 THEN <<>> ELSE <<@[1]>>],
     ret |-> Unarrived(SubSeq(line.queue, 2, len(line)))]

\* a close that evicts the customers behind the front and leaves the line open
close_stay_open(line) ==
    [line |-> [line EXCEPT !.queue = IF len(line) = 0 THEN <<>> ELSE <<@[1]>>],
     ret |-> SubSeq(line.queue, 2, len(line))]

close(line) ==
    [line |-> [line EXCEPT !.is_open = FALSE,
                           !.queue = IF len(line) = 0 THEN <<>> ELSE <<@[1]>>],
     ret |-> SubSeq(line.queue, 2, len(line))]

(***************************************************************************)
(* store.py : GroceryStore                                                 *)
(***************************************************************************)

\* The line counts of the configurations: <<regular, express, self-serve>>.
Layouts ==
    {<<1, 0, 0>>, <<0, 1, 0>>, <<0, 0, 1>>, <<2, 0, 0>>, <<1, 1, 0>>, <<1, 1, 1>>}

\* The configuration files: a layout and the capacity shared by its lines.
Configs ==
    {[regular_count |-> l[1], express_count |-> l[2], self_serve_count |-> l[3],
      line_capacity |-> c] : l \in Layouts, c \in 1..MaxCapacity}

\* GroceryStore.__init__: regular lines, then express lines, then self-serve.
NewStore(c) ==
    [num_lines |-> c.regular_count + c.express_count + c.self_serve_count,
     line_capacity |-> c.line_capacity,
     checkout_lines |->
        [i \in 1..c.regular_count |-> NewLine("Regular", c.line_capacity)]
        \o [i \in 1..c.express_count |-> NewLine("Express", c.line_capacity)]
        \o [i \in 1..c.self_serve_count |-> NewLine("SelfServe", c.line_capacity)]]

\* self.checkout_lines[i] for a list index i >= 0 (Python counts from 0)
LineAt(st, i) == st.checkout_lines[i + 1]

\* a scan that lets a later line of the same length replace the best so far
RECURSIVE EnterScanLastWins(_, _, _, _, _)
EnterScanLastWins(st, customer, i, line_index, position) ==
    IF i >= st.num_lines THEN [line_index |-> line_index, position |-> position]
    ELSE IF can_accept(LineAt(st, i), customer) /\ len(LineAt(st, i)) <= position
         THEN EnterScanLastWins(st, customer, i + 1, i, len(LineAt(st, i)))
         ELSE EnterScanLastWins(st, customer, i + 1, line_index, position)

\* The for loop of enter_line, from line i on: the pair (line_index, position).
RECURSIVE EnterScan(_, _, _, _, _)
EnterScan(st, customer, i, line_index, position) ==
    IF i >= st.num_lines THEN [line_index |-> line_index, position |-> position]
    ELSE IF can_accept(LineAt(st, i), customer) /\ len(LineAt(st, i)) < position
         THEN EnterScan(st, customer, i + 1, i, len(LineAt(st, i)))
         ELSE EnterScan(st, customer, i + 1, line_index, position)

\* enter_line: the store afterwards, the index returned, and whether
\* NoAvailableLineError was raised.
enter_line(st, customer) ==
    LET line_index == EnterScan(st, customer, 0, st.num_lines, st.line_capacity).line_index
    IN  IF line_index < st.num_lines
        THEN [store |-> [st EXCEPT !.checkout_lines[line_index + 1] =
                                        accept(@, customer).line],
              ret |-> line_index, raised |-> FALSE]
        ELSE [store |-> st, ret |-> -1, raised |-> TRUE]

\* Python's list indexing: an index in -len..len-1 names an element (a negative
\* one counts from the end), any other index raises IndexError.
InRange(st, line_number) == -st.num_lines <= line_number /\ line_number < st.num_lines

ListIndex(st, line_number) ==
    IF line_number < 0 THEN line_number + st.num_lines ELSE line_number

store_next_checkout_time(st, line_number) ==
    IF InRange(st, line_number)
    THEN [store |-> st, ret |-> next_checkout_time(LineAt(st, ListIndex(st, line_number))),
          raised |-> FALSE]
    ELSE [store |-> st, ret |-> -1, raised |-> TRUE]

store_remove_front_customer(st, line_number) ==
    IF InRange(st, line_number)
    THEN LET r == remove_front_customer(LineAt(st, ListIndex(st, line_number)))
         IN  [store |-> [st EXCEPT !.checkout_lines[ListIndex(st, line_number) + 1] = r.line],
              ret |-> r.ret, raised |-> FALSE]
    ELSE [store |-> st, ret |-> -1, raised |-> TRUE]

close_line(st, line_number) ==
    IF InRange(st, line_number)
    THEN LET r == close(LineAt(st, ListIndex(st, line_number)))
         IN  [store |-> [st EXCEPT !.checkout_lines[ListIndex(st, line_number) + 1] = r.line],
              ret |-> r.ret, raised |-> FALSE]
    ELSE [store |-> st, ret |-> <<>>, raised |-> TRUE]

store_first_in_line(st, line_number) ==
    IF InRange(st, line_number)
    THEN [store |-> st, ret |-> first_in_line(LineAt(st, ListIndex(st, line_number))),
          raised |-> FALSE]
    ELSE [store |-> st, ret |-> NoCustomer, raised |-> TRUE]

\* The customers standing in some line of the store.
InStore(st) ==
    UNION {{st.checkout_lines[i].queue[j].name : j \in 1..Len(st.checkout_lines[i].queue)} :
            i \in 1..st.num_lines}

(***************************************************************************)
(* SpecPQ: the queue alone, under every sequence of add and remove.        *)
(***************************************************************************)
NoItem == [timestamp |-> 0, seq |-> 0]
NoStore == [num_lines |-> 0, line_capacity |-> 0, checkout_lines |-> <<>>]

NoStats == [num_customers |-> 0, total_time |-> 0, max_wait |-> 0]

InitPQ ==
    /\ items = <<>>
    /\ seq = 0
    /\ store = NoStore
    /\ stats = NoStats
    /\ clock = 0
    /\ pc = "idle"
    /\ log = <<>>
    /\ served = <<>>
    /\ last = [op |-> "none", ret |-> NoItem]

PQAdd(k) ==
    /\ seq < MaxAdds
    /\ items' = add(items, [timestamp |-> k, seq |-> seq + 1])
    /\ seq' = seq + 1
    /\ last' = [op |-> "add", ret |-> [timestamp |-> k, seq |-> seq + 1]]
    /\ UNCHANGED <<store, stats, clock, pc, log, served>>

PQRemove ==
    /\ ~is_empty(items)
    /\ items' = remove(items).rest
    /\ last' = [op |-> "remove", ret |-> remove(items).ret]
    /\ UNCHANGED <<seq, store, stats, clock, pc, log, served>>

NextPQ ==
    \/ \E k \in 0..MaxKey : PQAdd(k)
    \/ PQRemove

SpecPQ == InitPQ /\ [][NextPQ]_vars

(***************************************************************************)
(* SpecStore: the store alone, under every sequence of its operations.     *)
(* last records the operation, the line number passed to it (for           *)
(* enter_line the index returned, -1 when it raised), the customer passed  *)
(* in, what the call returned (ret an integer, ok a boolean, list a list   *)
(* of customers, who a customer) and whether it raised an exception.  For  *)
(* close, which returns no boolean, ok tells whether the line was open     *)
(* when close was called.                                                  *)
(***************************************************************************)
Did(op, line, arg, ret, ok, list, who, raised) ==
    [op |-> op, line |-> line, arg |-> arg, ret |-> ret, ok |-> ok,
     list |-> list, who |-> who, raised |-> raised]

InitStore ==
    /\ items = <<>>
    /\ seq = 0
    /\ stats = NoStats
    /\ clock = 0
    /\ pc = "idle"
    /\ log = <<>>
    /\ served = <<>>
    /\ \E c \in Configs : store = NewStore(c)
    /\ last = Did("none", -1, NoCustomer, 0, FALSE, <<>>, NoCustomer, FALSE)

\* The line numbers a caller may pass: the valid ones and some on each side.
LineNumbers == (0 - store.num_lines - 1)..store.num_lines

\* The customers that are in no line (the precondition of enter_line).
Outside == {n \in 1..NumCustomers : n \notin InStore(store)}

EnterLine(n) ==
    /\ n \in Outside
    /\ LET r == enter_line(store, Customer(n))
       IN  /\ store' = r.store
           /\ last' = Did("enter_line", r.ret, Customer(n), r.ret, FALSE, <<>>,
                          NoCustomer, r.raised)
    /\ UNCHANGED <<items, seq, stats, clock, pc, log, served>>

CanAccept(i, n) ==
    /\ i \in 0..(store.num_lines - 1)
    /\ n \in Outside
    /\ last' = Did("can_accept", i, Customer(n), 0,
                   can_accept(LineAt(store, i), Customer(n)), <<>>, NoCustomer, FALSE)
    /\ UNCHANGED <<items, seq, store, stats, clock, pc, log, served>>

Accept(i, n) ==
    /\ i \in 0..(store.num_lines - 1)
    /\ n \in Outside
    /\ LET r == accept(LineAt(store, i), Customer(n))
       IN  /\ store' = [store EXCEPT !.checkout_lines[i + 1] = r.line]
           /\ last' = Did("accept", i, Customer(n), 0, r.ret, <<>>, NoCustomer, FALSE)
    /\ UNCHANGED <<items, seq, stats, clock, pc, log, served>>

NextCheckoutTime(ln) ==
    /\ ln \in LineNumbers
    /\ LET r == store_next_checkout_time(store, ln)
       IN  /\ store' = r.store
           /\ last' = Did("next_checkout_time", ln,
                          NoCustomer, r.ret, FALSE, <<>>, NoCustomer, r.raised)
    /\ UNCHANGED <<items, seq, stats, clock, pc, log, served>>

RemoveFrontCustomer(ln) ==
    /\ ln \in LineNumbers
    /\ LET r == store_remove_front_customer(store, ln)
       IN  /\ store' = r.store
           /\ last' = Did("remove_front_customer", ln,
                          NoCustomer, r.ret, FALSE, <<>>, NoCustomer, r.raised)
    /\ UNCHANGED <<items, seq, stats, clock, pc, log, served>>

CloseLine(ln) ==
    /\ ln \in LineNumbers
    /\ LET r == close_line(store, ln)
       IN  /\ store' = r.store
           /\ last' = Did("close", ln, NoCustomer, 0,
                          ~r.raised /\ LineAt(store, ListIndex(store, ln)).is_open,
                          r.ret, NoCustomer, r.raised)
    /\ UNCHANGED <<items, seq, stats, clock, pc, log, served>>

FirstInLine(ln) ==
    /\ ln \in LineNumbers
    /\ LET r == store_first_in_line(store, ln)
       IN  /\ store' = r.store
           /\ last' = Did("first_in_line", ln,
                          NoCustomer, 0, FALSE, <<>>, r.ret, r.raised)
    /\ UNCHANGED <<items, seq, stats, clock, pc, log, served>>

NextStore ==
    \/ \E n \in 1..NumCustomers : EnterLine(n)
    \/ \E i \in 0..(store.num_lines - 1), n \in 1..NumCustomers : CanAccept(i, n)
    \/ \E i \in 0..(store.num_lines - 1), n \in 1..NumCustomers : Accept(i, n)
    \/ \E ln \in LineNumbers : NextCheckoutTime(ln)
    \/ \E ln \in LineNumbers : RemoveFrontCustomer(ln)
    \/ \E ln \in LineNumbers : CloseLine(ln)
    \/ \E ln \in LineNumbers : FirstInLine(ln)

SpecStore == InitStore /\ [][NextStore]_vars

(***************************************************************************)
(* The events and the simulation driver.  An event is a record: its kind   *)
(* ("Arrive", "Checkout" or "Close"), its timestamp, the customer of an    *)
(* Arrive (NoCustomer otherwise), the line of a Checkout or Close (-1      *)
(* otherwise), and seq, the rank of the add call that scheduled it.        *)
(***************************************************************************)
Event(kind, timestamp, customer, line) ==
    [kind |-> kind, timestamp |-> timestamp, customer |-> customer,
     line |-> line, seq |-> 0]

NoEvent == Event("none", 0, NoCustomer, -1)

\* The events added to the queue one after the other, each stamped with
\* the rank of its add call, n calls having been made before.
RECURSIVE AddAll(_, _, _)
AddAll(s, events, n) ==
    IF events = <<>> THEN s
    ELSE AddAll(add(s, [Head(events) EXCEPT !.seq = n + 1]), Tail(events), n + 1)

Max(a, b) == IF a >= b THEN a ELSE b

\* An arrival at time T: the customer's arrival_time is set on the first
\* attempt; the customer enters a line and, when now at its front, the
\* checkout of that line is scheduled; with no line available the arrival
\* is attempted again one time unit later.
apply_arrival(st, e) ==
    LET T == e.timestamp
        customer == IF e.customer.arrival_time = NoTime
                    THEN [e.customer EXCEPT !.arrival_time = T]
                    ELSE e.customer
        r == enter_line(st, customer)
    IN  IF r.raised
        THEN [store |-> st, events |-> <<Event("Arrive", T + 1, customer, -1)>>]
        ELSE [store |-> r.store,
              events |->
                 IF len(LineAt(r.store, r.ret)) = 1
                 THEN <<Event("Checkout",
                              T + store_next_checkout_time(r.store, r.ret).ret,
                              NoCustomer, r.ret)>>
                 ELSE <<>>]

\* A checkout completion at time T on a line: the front customer leaves and,
\* when someone is left, the next checkout of the line is scheduled.
apply_checkout(st, e) ==
    LET T == e.timestamp
        r == store_remove_front_customer(st, e.line)
    IN  [store |-> r.store,
         events |->
            IF r.ret > 0
            THEN <<Event("Checkout", T + store_next_checkout_time(r.store, e.line).ret,
                         NoCustomer, e.line)>>
            ELSE <<>>]

\* The statistics after the checkout completion e.
checkout_stats(st, sts, e) ==
    LET front == store_first_in_line(st, e.line).ret
    IN  IF front = NoCustomer THEN sts
        ELSE [num_customers |-> sts.num_customers + 1,
              total_time |-> e.timestamp,
              max_wait |-> Max(sts.max_wait, e.timestamp - front.arrival_time)]

\* The customer that the checkout completion e checks out, with the line,
\* the arrival_time the customer carries and the time of the checkout.
checked_out(st, e) ==
    IF LineAt(st, e.line).queue = <<>> THEN <<>>
    ELSE <<[name |-> LineAt(st, e.line).queue[1].name,
            arrival_time |-> LineAt(st, e.line).queue[1].arrival_time,
            checkout_time |-> e.timestamp,
            line |-> e.line]>>

\* A close at time T of a line: every evicted customer arrives again at T,
\* in the order the customers stood in the line.
apply_close(st, e) ==
    LET r == close_line(st, e.line)
    IN  [store |-> r.store,
         events |-> [i \in 1..Len(r.ret) |->
                        Event("Arrive", e.timestamp, r.ret[i], -1)]]

(***************************************************************************)
(* SpecSim: run on every event list within the bounds.  The list is added  *)
(* to the queue one event at a time, then the queue is drained.  last      *)
(* records the event applied and how many events applying it produced.     *)
(***************************************************************************)
Ran(op, event, produced) == [op |-> op, event |-> event, produced |-> produced]

\* The runs of test_project.py (Tamara is customer 2, Jugo customer 1), and
\* a run in which a line of three closes while the other line has room for
\* one more customer, and a run in which the customer behind joins late and
\* waits less than the customer in front.
OneLine(l) ==
    [regular_count |-> l[1], express_count |-> l[2], self_serve_count |-> l[3],
     line_capacity |-> 1]

EVENT_FILE ==
    <<Event("Arrive", 10, Customer(2), -1), Event("Arrive", 5, Customer(1), -1)>>

EVENT_FILE_CLOSE == EVENT_FILE \o <<Event("Close", 0, NoCustomer, 0)>>

Scenarios ==
    << [config |-> OneLine(<<1, 0, 0>>), events |-> EVENT_FILE],
       [config |-> OneLine(<<0, 1, 0>>), events |-> EVENT_FILE],
       [config |-> OneLine(<<0, 0, 1>>), events |-> EVENT_FILE],
       [config |-> [regular_count |-> 2, express_count |-> 0,
                    self_serve_count |-> 0, line_capacity |-> 1],
        events |-> EVENT_FILE_CLOSE],
       [config |-> [regular_count |-> 2, express_count |-> 0,
                    self_serve_count |-> 0, line_capacity |-> 3],
        events |-> [n \in 1..5 |-> Event("Arrive", 0, Customer(n), -1)]
                   \o <<Event("Close", 1, NoCustomer, 0)>>],
       [config |-> [regular_count |-> 1, express_count |-> 0,
                    self_serve_count |-> 0, line_capacity |-> 2],
        events |-> <<Event("Arrive", 0, Customer(3), -1),
                     Event("Arrive", 7, Customer(1), -1)>>] >>

\* The Arrive commands of a list of events, in order.
Arrivals(events) == SelectSeq(events, LAMBDA e : e.kind = "Arrive")

\* run is given either an event list built command by command (pc = "seed")
\* or the event list of one of the scenarios, all added to the queue
\* (pc = "load").
InitSim ==
    /\ stats = NoStats
    /\ clock = 0
    /\ served = <<>>
    /\ last = Ran("none", NoEvent, 0)
    /\ \/ /\ \E c \in Configs : store = NewStore(c)
          /\ items = <<>>
          /\ seq = 0
          /\ log = <<>>
          /\ pc = "seed"
       \/ \E k \in 1..Len(Scenarios) :
             /\ store = NewStore(Scenarios[k].config)
             /\ items = AddAll(<<>>, Scenarios[k].events, 0)
             /\ seq = Len(Scenarios[k].events)
             /\ log = Arrivals(Scenarios[k].events)
             /\ pc = "load"

Scheduled(kind) == {i \in 1..Len(items) : items[i].kind = kind}

\* run adds the next event of the list: customer n arrives at time t.
SeedArrive(t, n) ==
    /\ pc = "seed"
    /\ Cardinality(Scheduled("Arrive")) < MaxArrivals
    /\ n = Cardinality(Scheduled("Arrive")) + 1
    /\ items' = AddAll(items, <<Event("Arrive", t, Customer(n), -1)>>, seq)
    /\ seq' = seq + 1
    /\ log' = Append(log, Event("Arrive", t, Customer(n), -1))
    /\ last' = Ran("seed", NoEvent, 0)
    /\ UNCHANGED <<store, stats, clock, pc, served>>

\* The lines that the Close commands in the queue close.
ClosedByList == {items[j].line : j \in Scheduled("Close")}

\* run adds the next event of the list: line i closes at time t.  The
\* event lists considered leave at least one line open: what run does with
\* an arrival once every line is closed is fixed neither by the tests nor
\* by the code at hand.
SeedClose(t, i) ==
    /\ pc = "seed"
    /\ Cardinality(Scheduled("Close")) < MaxCloses
    /\ i \in 0..(store.num_lines - 1)
    /\ Cardinality(ClosedByList \cup {i}) < store.num_lines
    /\ items' = AddAll(items, <<Event("Close", t, NoCustomer, i)>>, seq)
    /\ seq' = seq + 1
    /\ last' = Ran("seed", NoEvent, 0)
    /\ UNCHANGED <<store, stats, clock, pc, log, served>>

\* The whole list is in the queue: run starts to drain it.
Drain ==
    /\ pc \in {"seed", "load"}
    /\ pc' = "drain"
    /\ last' = Ran("drain", NoEvent, 0)
    /\ UNCHANGED <<items, seq, store, stats, clock, log, served>>

\* One turn of the loop of run: remove the next event, apply it, add the
\* events it produced.
Turn(kind) ==
    /\ pc = "drain"
    /\ ~is_empty(items)
    /\ remove(items).ret.kind = kind

ApplyArrival ==
    /\ Turn("Arrive")
    /\ LET e == remove(items).ret
           r == apply_arrival(store, e)
       IN  /\ store' = r.store
           /\ items' = AddAll(remove(items).rest, r.events, seq)
           /\ seq' = seq + Len(r.events)
           /\ clock' = e.timestamp
           /\ last' = Ran("apply", e, Len(r.events))
    /\ UNCHANGED <<stats, pc, log, served>>

ApplyCheckout ==
    /\ Turn("Checkout")
    /\ LET e == remove(items).ret
           r == apply_checkout(store, e)
       IN  /\ store' = r.store
           /\ stats' = checkout_stats(store, stats, e)
           /\ items' = AddAll(remove(items).rest, r.events, seq)
           /\ seq' = seq + Len(r.events)
           /\ clock' = e.timestamp
           /\ served' = served \o checked_out(store, e)
           /\ last' = Ran("apply", e, Len(r.events))
    /\ UNCHANGED <<pc, log>>

ApplyClose ==
    /\ Turn("Close")
    /\ LET e == remove(items).ret
           r == apply_close(store, e)
       IN  /\ store' = r.store
           /\ items' = AddAll(remove(items).rest, r.events, seq)
           /\ seq' = seq + Len(r.events)
           /\ clock' = e.timestamp
           /\ last' = Ran("apply", e, Len(r.events))
    /\ UNCHANGED <<stats, pc, log, served>>

\* The queue is empty: run returns.
Finish ==
    /\ pc = "drain"
    /\ is_empty(items)
    /\ pc' = "done"
    /\ last' = Ran("done", NoEvent, 0)
    /\ UNCHANGED <<items, seq, store, stats, clock, log, served>>

NextSim ==
    \/ \E t \in 0..MaxStart, n \in 1..NumCustomers : SeedArrive(t, n)
    \/ \E t \in 0..MaxStart, i \in 0..(store.num_lines - 1) : SeedClose(t, i)
    \/ Drain
    \/ ApplyArrival
    \/ ApplyCheckout
    \/ ApplyClose
    \/ Finish

SpecSim == InitSim /\ [][NextSim]_vars

\* run is a sequential loop: as long as it has a next step, it takes it.
FairSim == SpecSim /\ WF_vars(NextSim)

(***************************************************************************)
(* Properties of the priority queue (under SpecPQ)                         *)
(***************************************************************************)

\* s without its element at index i
Without(s, i) == SubSeq(s, 1, i - 1) \o SubSeq(s, i + 1, Len(s))

\* C1: every remove returns an element that no held element is strictly
\* less than, removes exactly that element and leaves the others in their
\* order; two removes in a row return items in non-decreasing order.
C1_RemoveReturnsMinimum ==
    [][last'.op = "remove" =>
        /\ \E i \in 1..Len(items) :
              /\ items[i] = last'.ret
              /\ items' = Without(items, i)
        /\ \A j \in 1..Len(items) : ~(items[j].timestamp < last'.ret.timestamp)
        /\ (last.op = "remove" => last.ret.timestamp <= last'.ret.timestamp)]_vars

\* A remove has returned an item that was added after a held item of
\* lower priority: the order of the queue, not of the calls, decided.
C1_Witness ==
    /\ last.op = "remove"
    /\ \E i \in 1..Len(items) :
          /\ items[i].seq < last.ret.seq
          /\ items[i].timestamp > last.ret.timestamp

\* C2: the queue is stable: equal items are held in the order they were
\* added, and a removed item was added before every equal item still held.
C2_Stable ==
    /\ \A i, j \in 1..Len(items) :
          (i < j /\ items[i].timestamp = items[j].timestamp)
              => items[i].seq < items[j].seq
    /\ last.op = "remove" =>
          \A i \in 1..Len(items) :
              items[i].timestamp = last.ret.timestamp => last.ret.seq < items[i].seq

\* An item was removed while an equal item, added later, stays in the queue
\* behind an item added between the two.
C2_Witness ==
    /\ last.op = "remove"
    /\ \E i, j \in 1..Len(items) :
          /\ items[i].timestamp = last.ret.timestamp
          /\ items[j].timestamp > last.ret.timestamp
          /\ items[j].seq < items[i].seq

(***************************************************************************)
(* Properties of the store (under SpecStore)                               *)
(***************************************************************************)

\* The list indices of the lines of the store.
Indices == 0..(store.num_lines - 1)

\* A line is open and below its capacity.
HasRoom(line) == line.is_open /\ Len(line.queue) < line.capacity

\* C3: when some line can accept the customer, enter_line appends the
\* customer to the shortest of the lines that can accept, the lowest index
\* among equally short ones, returns that index and changes no other line.
C3_EnterLineShortest ==
    [][last'.op = "enter_line" =>
        LET customer == last'.arg
            able == {i \in Indices : HasRoom(LineAt(store, i))}
        IN  able # {} =>
              \E i \in able :
                 /\ \A j \in able :
                       \/ Len(LineAt(store, i).queue) < Len(LineAt(store, j).queue)
                       \/ /\ Len(LineAt(store, i).queue) = Len(LineAt(store, j).queue)
                          /\ i <= j
                 /\ ~last'.raised
                 /\ last'.ret = i
                 /\ store' = [store EXCEPT !.checkout_lines[i + 1].queue =
                                               Append(@, customer)]]_vars

\* enter_line chose line 0 although line 1 was open with room and had the
\* same length, one customer each, before the call.
C3_Witness ==
    /\ last.op = "enter_line"
    /\ ~last.raised
    /\ last.ret = 0
    /\ store.num_lines >= 2
    /\ HasRoom(LineAt(store, 1))
    /\ Len(LineAt(store, 1).queue) = 1
    /\ Len(LineAt(store, 0).queue) = 2

\* can_accept as the design states it: open, below capacity and, for an
\* express line, a customer within the express limit.
MayJoin(line, customer) ==
    /\ HasRoom(line)
    /\ line.kind = "Express" => Len(customer.items) <= EXPRESS_LIMIT

\* C4: enter_line raises NoAvailableLineError exactly when no line can
\* accept the customer (closed, full, or an express line and a customer
\* over the limit), and then no line changes and the customer is in none.
C4_RaisesIffNoLine ==
    [][last'.op = "enter_line" =>
        /\ last'.raised <=> \A i \in Indices : ~MayJoin(LineAt(store, i), last'.arg)
        /\ last'.raised => (store' = store /\ last'.arg.name \notin InStore(store'))]_vars

\* C5: no customer with more than EXPRESS_LIMIT items is in an express line;
\* can_accept and accept return false for such a customer on an express
\* line, and enter_line does not route such a customer to one.
C5_ExpressLimit ==
    /\ \A i \in Indices :
          LineAt(store, i).kind = "Express" =>
              \A j \in 1..Len(LineAt(store, i).queue) :
                  Len(LineAt(store, i).queue[j].items) <= EXPRESS_LIMIT
    /\ ( /\ last.op \in {"can_accept", "accept"}
         /\ LineAt(store, last.line).kind = "Express"
         /\ Len(last.arg.items) > EXPRESS_LIMIT ) => ~last.ok
    /\ ( /\ last.op = "enter_line"
         /\ ~last.raised
         /\ Len(last.arg.items) > EXPRESS_LIMIT )
           => LineAt(store, last.ret).kind # "Express"

\* C6: the number of customers in a line never exceeds the line's capacity.
C6_WithinCapacity ==
    \A i \in Indices : Len(LineAt(store, i).queue) <= LineAt(store, i).capacity

\* accept has turned a customer away from an open line that is full.
C6_Witness ==
    /\ last.op = "accept"
    /\ ~last.ok
    /\ LineAt(store, last.line).is_open
    /\ Len(LineAt(store, last.line).queue) = LineAt(store, last.line).capacity

\* C7: close sets is_open to false, returns the customers behind the front
\* one in their order and leaves the front one alone in the line; on an empty
\* line it returns the empty list and leaves the line empty.  The queue left
\* followed by the list returned is the queue before the call.
C7_CloseKeepsFront ==
    [][(last'.op = "close" /\ ~last'.raised) =>
        LET i == ListIndex(store, last'.line)
            before == LineAt(store, i).queue
            after == LineAt(store', i)
        IN  /\ after.is_open = FALSE
            /\ after.queue \o last'.list = before
            /\ before = <<>> => (after.queue = <<>> /\ last'.list = <<>>)
            /\ before # <<>> =>
                  (after.queue = <<Head(before)>> /\ last'.list = Tail(before))]_vars

\* close has evicted two customers and kept the front one.
C7_Witness ==
    /\ last.op = "close"
    /\ ~last.raised
    /\ Len(last.list) = 2
    /\ Len(LineAt(store, ListIndex(store, last.line)).queue) = 1

\* C8: next_checkout_time is 0 for an empty line, the sum of the front
\* customer's item times for a regular or express line, twice that sum for
\* a self-serve line, and the call changes no line.
C8_NextCheckoutTime ==
    [][(last'.op = "next_checkout_time" /\ ~last'.raised) =>
        LET line == LineAt(store, ListIndex(store, last'.line))
        IN  /\ store' = store
            /\ line.queue = <<>> => last'.ret = 0
            /\ (line.queue # <<>> /\ line.kind \in {"Regular", "Express"})
                  => last'.ret = SumTimes(Head(line.queue).items, 1)
            /\ (line.queue # <<>> /\ line.kind = "SelfServe")
                  => last'.ret = 2 * SumTimes(Head(line.queue).items, 1)]_vars

\* The time of a self-serve line with two customers was asked for.
C8_Witness ==
    /\ last.op = "next_checkout_time"
    /\ ~last.raised
    /\ LineAt(store, ListIndex(store, last.line)).kind = "SelfServe"
    /\ Len(LineAt(store, ListIndex(store, last.line)).queue) = 2
    /\ last.ret > 0

\* C9: remove_front_customer never fails: on a non-empty line it removes the
\* front customer, keeps the others in order and returns the new length; on
\* an empty line it changes nothing and returns 0; is_open is never changed.
C9_RemoveFront ==
    [][last'.op = "remove_front_customer" =>
        /\ InRange(store, last'.line) => ~last'.raised
        /\ ~last'.raised =>
            LET i == ListIndex(store, last'.line)
                before == LineAt(store, i)
            IN  /\ before.queue = <<>> => (store' = store /\ last'.ret = 0)
                /\ before.queue # <<>> =>
                      /\ store' = [store EXCEPT !.checkout_lines[i + 1].queue =
                                                    Tail(before.queue)]
                      /\ last'.ret = Len(before.queue) - 1
                /\ LineAt(store', i).is_open = before.is_open]_vars

\* The front customer of a line of three was removed: two are left.
C9_Witness ==
    /\ last.op = "remove_front_customer"
    /\ ~last.raised
    /\ last.ret = 2
    /\ Len(LineAt(store, ListIndex(store, last.line)).queue) = 2

(***************************************************************************)
(* Properties of the simulation (under SpecSim)                            *)
(***************************************************************************)

\* a is due before b: an earlier timestamp, or the same and scheduled first
DueBefore(a, b) ==
    \/ a.timestamp < b.timestamp
    \/ (a.timestamp = b.timestamp /\ a.seq < b.seq)

\* C10: events are applied in non-decreasing timestamp order, and events of
\* the same timestamp in the order they were scheduled: the event applied
\* is in the queue, no queued event is due before it, and its timestamp is
\* not below that of the event applied before.
C10_EventOrder ==
    [][last'.op = "apply" =>
        /\ \E i \in 1..Len(items) : items[i] = last'.event
        /\ \A i \in 1..Len(items) : ~DueBefore(items[i], last'.event)
        /\ clock <= last'.event.timestamp
        /\ clock' = last'.event.timestamp]_vars

\* A checkout completion, scheduled by an earlier apply, was applied while
\* an arrival of the same timestamp, scheduled after it, waits in the queue.
C10_Witness ==
    /\ last.op = "apply"
    /\ last.event.kind = "Checkout"
    /\ \E i \in 1..Len(items) :
          /\ items[i].kind = "Arrive"
          /\ items[i].timestamp = last.event.timestamp
          /\ items[i].seq > last.event.seq

(***************************************************************************)
(* Properties of a run: what applying an event schedules                   *)
(***************************************************************************)

\* The indices of the queued events added after the first `before` adds.
Produced(q, before) == {i \in 1..Len(q) : q[i].seq > before}

\* C11: every event produced by applying an event carries a timestamp that
\* is not below the timestamp of the event applied, and the clock never
\* decreases.
C11_Causality ==
    [][last'.op = "apply" =>
        /\ Cardinality(Produced(items', seq)) = last'.produced
        /\ \A i \in Produced(items', seq) :
              items'[i].timestamp >= last'.event.timestamp
        /\ clock' >= clock]_vars

\* A close applied after the clock moved evicted two customers, whose
\* arrivals are now in the queue.
C11_Witness ==
    /\ last.op = "apply"
    /\ last.event.kind = "Close"
    /\ last.event.timestamp > 0
    /\ last.produced >= 2
    /\ \E i \in 1..Len(items) :
          items[i].kind = "Arrive" /\ items[i].seq = seq

(***************************************************************************)
(* Properties of a finished run (under SpecSim)                            *)
(***************************************************************************)

\* The Arrive commands of the event list given to run.
ArriveCommands == 1..Len(log)

\* The checkouts of the customer named n.
CheckoutsOf(n) == {k \in 1..Len(served) : served[k].name = n}

\* The time it takes a line of the kind to check out customer n alone.
ServiceTime(kind, n) ==
    next_checkout_time([NewLine(kind, 1) EXCEPT !.queue = <<Customer(n)>>])

\* The run is one of test_simulation, test_simulation_express,
\* test_simulation_self_serve (one line of capacity 1) and
\* test_simulation_close (two regular lines, line 0 closed at 0).
TestRun ==
    /\ store.line_capacity = 1
    /\ log = Arrivals(EVENT_FILE)
    /\ store.num_lines \in {1, 2}

\* C12: at the end of run every customer of the event list has been checked
\* out exactly once and num_customers is the number of Arrive commands,
\* also when an arrival found every line full; in the runs of the tests
\* num_customers is 2.
C12_AllCheckedOut ==
    pc = "done" =>
        /\ stats.num_customers = Cardinality(ArriveCommands)
        /\ Len(served) = Cardinality(ArriveCommands)
        /\ \A i \in ArriveCommands :
              Cardinality(CheckoutsOf(log[i].customer.name)) = 1
        /\ TestRun => stats.num_customers = 2

\* A finished run on lines of capacity 1 in which the second customer was
\* checked out later than service alone takes: the arrival found the line
\* full and the customer was served all the same.
C12_Witness ==
    /\ pc = "done"
    /\ store.line_capacity = 1
    /\ stats.num_customers = 2
    /\ Len(served) = 2
    /\ served[2].checkout_time - served[2].arrival_time
          > ServiceTime(LineAt(store, served[2].line).kind, served[2].name)

\* The time of the Arrive command of customer n: the customer's first
\* attempt to join a line.
FirstAttempt(n) ==
    log[CHOOSE i \in ArriveCommands : log[i].customer.name = n].timestamp

\* How long the k-th customer checked out waited, from the first attempt.
Waited(k) == served[k].checkout_time - FirstAttempt(served[k].name)

\* The largest number of a non-empty set of numbers.
Largest(S) == CHOOSE m \in S : \A x \in S : x <= m

\* C13: at the end of run max_wait is the maximum, over the customers
\* checked out, of the checkout time minus the time of the customer's first
\* attempt to join a line; in the runs of the tests on one line it is 8 on
\* a regular or express line and 21 on a self-serve line.
C13_MaxWait ==
    pc = "done" =>
        /\ served = <<>> => stats.max_wait = 0
        /\ served # <<>> =>
              stats.max_wait = Largest({Waited(k) : k \in 1..Len(served)})
        /\ (TestRun /\ store.num_lines = 1) =>
              stats.max_wait =
                 IF LineAt(store, 0).kind = "SelfServe" THEN 21 ELSE 8

\* A finished run in which the customer who waited longest had first been
\* turned away: on lines of capacity 1 the wait is longer than the service.
C13_Witness ==
    /\ pc = "done"
    /\ store.line_capacity = 1
    /\ \E k \in 1..Len(served) :
          /\ Waited(k) = stats.max_wait
          /\ Waited(k) >
                ServiceTime(LineAt(store, served[k].line).kind, served[k].name)
          /\ \E j \in 1..Len(served) : Waited(j) < Waited(k)

\* C14: total_time never decreases while events are applied and is the
\* timestamp of the latest checkout applied, at every step and so at the
\* end of run; in the runs of the tests on one line it ends as 18 on a
\* regular or express line and as 31 on a self-serve line.
C14_TotalTime ==
    [][/\ stats'.total_time >= stats.total_time
       /\ served' # <<>> =>
             /\ stats'.total_time = served'[Len(served')].checkout_time
             /\ stats'.total_time =
                   Largest({served'[k].checkout_time : k \in 1..Len(served')})
       /\ (pc' = "done" /\ TestRun /\ store.num_lines = 1) =>
             stats'.total_time =
                IF LineAt(store, 0).kind = "SelfServe" THEN 31 ELSE 18]_vars

\* A finished run with two checkouts at different times: total_time is the
\* time of the later one.
C14_Witness ==
    /\ pc = "done"
    /\ Len(served) = 2
    /\ served[1].checkout_time < served[2].checkout_time
    /\ stats.total_time = served[2].checkout_time

(***************************************************************************)
(* Properties of the events applied (under SpecSim)                        *)
(***************************************************************************)

\* The event being applied is an arrival that finds every line closed or
\* full.
ArrivalTurnedAway ==
    /\ last'.op = "apply"
    /\ last'.event.kind = "Arrive"
    /\ \A i \in Indices : ~HasRoom(LineAt(store, i))

\* C15 as stated: an arrival that finds no available line is not retried:
\* the customer joins no line and applying the arrival produces no event.
C15_NotRetried ==
    [][ArrivalTurnedAway =>
        /\ store' = store
        /\ last'.produced = 0
        /\ items' = remove(items).rest]_vars

\* C15, amended: an arrival that finds no available line does not abort the
\* run and the customer joins no line; applying it produces exactly one
\* event, an arrival of the same customer at a later time, which keeps the
\* arrival_time of the first attempt; the remaining events stay queued.
C15_Retried ==
    [][ArrivalTurnedAway =>
        /\ store' = store
        /\ pc' = "drain"
        /\ last'.produced = 1
        /\ \E i \in 1..Len(items') :
              /\ Produced(items', seq) = {i}
              /\ items'[i].kind = "Arrive"
              /\ items'[i].timestamp > last'.event.timestamp
              /\ items'[i].customer.name = last'.event.customer.name
              /\ items'[i].customer.items = last'.event.customer.items
              /\ last'.event.customer.arrival_time = NoTime =>
                    items'[i].customer.arrival_time = last'.event.timestamp
              /\ last'.event.customer.arrival_time # NoTime =>
                    items'[i].customer = last'.event.customer
              /\ Without(items', i) = remove(items).rest]_vars

\* An arrival was turned away while another event waits in the queue: the
\* customer is in no line and arrives again one time unit later.
C15_Witness ==
    /\ last.op = "apply"
    /\ last.event.kind = "Arrive"
    /\ last.produced = 1
    /\ last.event.customer.name \notin InStore(store)
    /\ Len(items) >= 2
    /\ \E i \in 1..Len(items) :
          /\ items[i].seq = seq
          /\ items[i].kind = "Arrive"
          /\ items[i].timestamp = last.event.timestamp + 1
          /\ items[i].customer.name = last.event.customer.name

\* The queued checkout completions of line i.
CheckoutsDue(q, i) == {j \in 1..Len(q) : q[j].kind = "Checkout" /\ q[j].line = i}

\* Applying a close of line i at time T: line i is closed and keeps its
\* front customer, no other line changes, and the events produced are one
\* arrival at T per customer behind the front, with the customer's own
\* items, added in the order the customers stood in the line.
CloseApplied ==
    LET e == last'.event
        line == LineAt(store, e.line)
        evicted == SubSeq(line.queue, 2, Len(line.queue))
    IN  /\ ~LineAt(store', e.line).is_open
        /\ LineAt(store', e.line).queue =
              IF line.queue = <<>> THEN <<>> ELSE <<line.queue[1]>>
        /\ \A j \in Indices : j # e.line => LineAt(store', j) = LineAt(store, j)
        /\ last'.produced = Len(evicted)
        /\ Len(line.queue) <= 1 => last'.produced = 0
        /\ Len(items') = Len(items) - 1 + Len(evicted)
        /\ \A j \in 1..Len(remove(items).rest) :
              \E k \in 1..Len(items') : items'[k] = remove(items).rest[j]
        /\ \A n \in 1..Len(evicted) :
              \E k \in 1..Len(items') :
                 /\ items'[k].seq = seq + n
                 /\ items'[k].kind = "Arrive"
                 /\ items'[k].timestamp = e.timestamp
                 /\ items'[k].customer = evicted[n]
                 /\ items'[k].customer.items = Customer(evicted[n].name).items

\* A closed line stays closed and no customer joins it: its queue changes
\* only when a checkout of the line is applied, which checks out its front
\* customer; and while a customer is in it a checkout of the line is due.
ClosedLineDrains ==
    \A i \in Indices :
        LET line == LineAt(store, i)
        IN  (store.num_lines = store'.num_lines /\ ~line.is_open) =>
               /\ ~LineAt(store', i).is_open
               /\ LineAt(store', i).queue # line.queue =>
                     /\ last'.op = "apply"
                     /\ last'.event.kind = "Checkout"
                     /\ last'.event.line = i
                     /\ LineAt(store', i).queue = Tail(line.queue)
                     /\ Len(served') = Len(served) + 1
                     /\ served'[Len(served')].name = line.queue[1].name
                     /\ served'[Len(served')].line = i
               /\ LineAt(store', i).queue # <<>> => CheckoutsDue(items', i) # {}

\* C16: applying a Close of line i at time T closes line i and produces
\* exactly one Arrive per evicted customer, timed T, with the customer's
\* items, in line order, and no other event (none at all for a line of zero
\* or one customer); afterwards no customer joins line i, and the customer
\* at its front is still checked out from line i.
C16_CloseEvent ==
    [][/\ (last'.op = "apply" /\ last'.event.kind = "Close") => CloseApplied
       /\ ClosedLineDrains]_vars

\* A close evicted two customers; their arrivals are queued in line order,
\* and the front customer of the closed line awaits the checkout.
C16_Witness ==
    /\ last.op = "apply"
    /\ last.event.kind = "Close"
    /\ last.produced = 2
    /\ Len(LineAt(store, last.event.line).queue) = 1
    /\ CheckoutsDue(items, last.event.line) # {}
    /\ \E j, k \in 1..Len(items) :
          /\ j < k
          /\ items[j].seq = seq - 1 /\ items[j].kind = "Arrive"
          /\ items[k].seq = seq /\ items[k].kind = "Arrive"

(***************************************************************************)
(* Termination of run (under FairSim)                                      *)
(***************************************************************************)

\* C17, for the event lists that leave a line open: run terminates, also
\* when an arrival finds every line closed or full and when a line is
\* closed while customers wait in it; run stops exactly when the queue is
\* empty and applies no event after that.
C17_TerminatesWithOpenLine ==
    /\ <>(pc = "done")
    /\ [][pc' = "done" => (pc = "drain" /\ is_empty(items))]_vars
    /\ [][pc = "done" => UNCHANGED vars]_vars
    /\ [][(pc = "drain" /\ pc' = "drain") => ~is_empty(items)]_vars

(***************************************************************************)
(* Properties of the store (under SpecStore), continued                    *)
(***************************************************************************)

\* C18: close on a line that is already closed, whatever accept, enter_line
\* and remove_front_customer calls came in between, returns an empty list
\* and leaves is_open false and the queue unchanged.
C18_CloseIdempotent ==
    [][(/\ last'.op = "close"
        /\ ~last'.raised
        /\ ~LineAt(store, ListIndex(store, last'.line)).is_open) =>
           /\ last'.list = <<>>
           /\ store' = store
           /\ ~LineAt(store', ListIndex(store, last'.line)).is_open]_vars

\* close was called on a line that was closed already and still holds its
\* front customer, while another line holds a customer too.
C18_Witness ==
    /\ last.op = "close"
    /\ ~last.raised
    /\ ~last.ok
    /\ last.list = <<>>
    /\ Len(LineAt(store, ListIndex(store, last.line)).queue) = 1
    /\ \E i \in Indices :
          i # ListIndex(store, last.line) /\ LineAt(store, i).queue # <<>>

\* The operations of the store that take a line number.
TakesLineNumber ==
    {"next_checkout_time", "remove_front_customer", "close", "first_in_line"}

\* C19: next_checkout_time, remove_front_customer, close_line and
\* first_in_line called with a line number outside 0 <= n < num_lines raise
\* an error and leave every line as it was.
C19_BadIndexFails ==
    [][(/\ last'.op \in TakesLineNumber
        /\ (last'.line < 0 \/ last'.line >= store.num_lines)) =>
           /\ last'.raised
           /\ store' = store]_vars

(***************************************************************************)
(* Properties of the customers in a run (under SpecSim)                    *)
(***************************************************************************)

\* The customer is one of the event list and carries the time of the first
\* attempt as arrival_time.
KeepsFirstAttempt(customer) ==
    /\ \E i \in ArriveCommands : log[i].customer.name = customer.name
    /\ customer.items = Customer(customer.name).items
    /\ customer.arrival_time = FirstAttempt(customer.name)

\* C20: arrival_time is set at the first attempt to join a line and never
\* changes: every customer in a line, every customer checked out and every
\* customer whose arrival was applied before and is queued again (after a
\* rejection, after an eviction) carries the time of the Arrive command; an
\* arrival not applied yet carries none.
C20_ArrivalTimeOnce ==
    /\ \A i \in Indices : \A j \in 1..Len(LineAt(store, i).queue) :
          KeepsFirstAttempt(LineAt(store, i).queue[j])
    /\ \A k \in 1..Len(served) :
          served[k].arrival_time = FirstAttempt(served[k].name)
    /\ \A i \in Scheduled("Arrive") :
          IF items[i].customer.arrival_time = NoTime
          THEN items[i].timestamp = FirstAttempt(items[i].customer.name)
          ELSE KeepsFirstAttempt(items[i].customer)

\* A customer joined an open line at a later attempt than the first, in a
\* store where a line has been closed: arrival_time is still the time of
\* the first attempt.
C20_Witness ==
    /\ last.op = "apply"
    /\ last.event.kind = "Arrive"
    /\ last.event.customer.arrival_time # NoTime
    /\ last.event.customer.arrival_time < last.event.timestamp
    /\ \E i \in Indices :
          /\ LineAt(store, i).is_open
          /\ \E j \in 1..Len(LineAt(store, i).queue) :
                LineAt(store, i).queue[j] = last.event.customer
    /\ \E i \in Indices : ~LineAt(store, i).is_open

\* A closed line as it must be: it holds at most one customer and accepts
\* none of the customers.
ClosedForGood(line) ==
    /\ ~line.is_open
    /\ Len(line.queue) <= 1
    /\ \A n \in 1..NumCustomers : ~can_accept(line, Customer(n))

\* C21: closure is permanent and monotone. After close the line is closed;
\* a closed line stays closed, accepts no customer, holds at most one
\* customer and never grows; one remove_front_customer empties it, and it
\* stays empty.
C21_ClosedForGood ==
    /\ [](\A i \in Indices :
             ~LineAt(store, i).is_open => ClosedForGood(LineAt(store, i)))
    /\ [][\A i \in Indices :
             LET old == LineAt(store, i)
                 new == LineAt(store', i)
                 called(op) == /\ last'.op = op
                               /\ ~last'.raised
                               /\ ListIndex(store, last'.line) = i
             IN  /\ (called("close") \/ ~old.is_open) => ~new.is_open
                 /\ ~old.is_open =>
                       /\ Len(new.queue) <= Len(old.queue)
                       /\ called("remove_front_customer") => new.queue = <<>>
                       /\ called("accept") => ~last'.ok]_vars

\* A closed line that holds one customer and has room for more refused a
\* customer.
C21_Witness ==
    /\ last.op = "accept"
    /\ ~last.ok
    /\ ~LineAt(store, last.line).is_open
    /\ Len(LineAt(store, last.line).queue) = 1
    /\ LineAt(store, last.line).capacity > 1

(***************************************************************************)
(* Properties of the scheduled checkouts (under SpecSim)                   *)
(***************************************************************************)

\* Every line with a customer has exactly one checkout completion in the
\* queue, every empty line none.
OneCheckoutPerBusyLine ==
    \A i \in Indices :
        Cardinality(CheckoutsDue(items, i)) =
            IF LineAt(store, i).queue = <<>> THEN 0 ELSE 1

\* C22: between event applications every non-empty line, open or closed,
\* has exactly one checkout completion in the queue and every empty line
\* has none; a checkout completion is applied to a line with a customer,
\* checks out that front customer, and nobody is checked out twice.
C22_OneCheckoutDue ==
    /\ [](OneCheckoutPerBusyLine)
    /\ [](\A j, k \in 1..Len(served) : served[j].name = served[k].name => j = k)
    /\ [][(last'.op = "apply" /\ last'.event.kind = "Checkout") =>
            /\ LineAt(store, last'.event.line).queue # <<>>
            /\ LineAt(store', last'.event.line).queue =
                  Tail(LineAt(store, last'.event.line).queue)
            /\ Len(served') = Len(served) + 1
            /\ served'[Len(served')].name =
                  LineAt(store, last'.event.line).queue[1].name]_vars

\* A checkout left a customer at the front of its line, whose checkout is
\* now due, in a run in which a closed line has had its front customer
\* checked out and is empty.
C22_Witness ==
    /\ last.op = "apply"
    /\ last.event.kind = "Checkout"
    /\ last.produced = 1
    /\ Cardinality(CheckoutsDue(items, last.event.line)) = 1
    /\ LineAt(store, last.event.line).queue # <<>>
    /\ \E i \in Indices :
          /\ ~LineAt(store, i).is_open
          /\ LineAt(store, i).queue = <<>>
          /\ \E k \in 1..Len(served) : served[k].line = i

====
